---- MODULE Spec2Model ----
(***************************************************************************)
(* Model of organize/filters/date_added.py: the DateAdded filter.          *)
(*                                                                         *)
(* Time is counted in whole seconds since 1970-01-01T00:00:00Z.  A         *)
(* timezone is a fixed offset from UTC.  The pendulum calls the filter     *)
(* makes (duration, from_timestamp, +, is_past, in_words) are modelled by  *)
(* what they compute on whole seconds and fixed-offset zones.              *)
(*                                                                         *)
(* The try/except of _date_added (lines 152-156) is read with the except   *)
(* clause belonging to the try of line 152.                                *)
(***************************************************************************)
EXTENDS Integers, Sequences, FiniteSets, TLC

VARIABLES
    sysTz,      \* the local timezone of the system, as it is now
    defaultTz,  \* the default value of __init__'s timezone parameter
    filter,     \* filter[f]: the attributes of DateAdded instance f, or NoFilter
    ctor,       \* ctor[f]: how instance f was constructed (arguments, outcome)
    platform,   \* "darwin" (mdls installed) or "other"
    fs,         \* fs[p]: [exists, mtime] of path p
    now,        \* the wall clock
    call        \* call[c]: the frame of one pipeline() invocation

vars == <<sysTz, defaultTz, filter, ctor, platform, fs, now, call>>

-----------------------------------------------------------------------------
(* Calendar arithmetic (proleptic Gregorian), as pendulum/datetime do it.  *)

Abs(n) == IF n < 0 THEN -n ELSE n

Sign(n) == IF n < 0 THEN -1 ELSE 1

Min(a, b) == IF a < b THEN a ELSE b

SECONDS_PER_HOUR == 60 * 60
SECONDS_PER_DAY == 24 * 60 * 60

is_leap(y) == (y % 4 = 0) /\ ((y % 100 # 0) \/ (y % 400 = 0))

DaysInMonth(y, m) ==
    IF m = 2 THEN (IF is_leap(y) THEN 29 ELSE 28)
    ELSE IF m \in {4, 6, 9, 11} THEN 30 ELSE 31

\* number of days from 1970-01-01 to the civil date y-m-d
DaysFromCivil(y, m, d) ==
    LET yy  == IF m <= 2 THEN y - 1 ELSE y
        era == yy \div 400
        yoe == yy - era * 400
        mp  == IF m > 2 THEN m - 3 ELSE m + 9
        doy == (153 * mp + 2) \div 5 + d - 1
        doe == yoe * 365 + yoe \div 4 - yoe \div 100 + doy
    IN  era * 146097 + doe - 719468

\* the civil date of day number z (days since 1970-01-01)
CivilFromDays(z) ==
    LET zz  == z + 719468
        era == zz \div 146097
        doe == zz - era * 146097
        yoe == (doe - doe \div 1460 + doe \div 36524 - doe \div 146096) \div 365
        doy == doe - (365 * yoe + yoe \div 4 - yoe \div 100)
        mp  == (5 * doy + 2) \div 153
        d   == doy - (153 * mp + 2) \div 5 + 1
        m   == IF mp < 10 THEN mp + 3 ELSE mp - 9
        y   == yoe + era * 400 + (IF m <= 2 THEN 1 ELSE 0)
    IN  [year |-> y, month |-> m, day |-> d]

\* a timezone-aware datetime from a count of local (wall clock) seconds
FromLocalSeconds(l, tz) ==
    LET date == CivilFromDays(l \div SECONDS_PER_DAY)
        tod  == l % SECONDS_PER_DAY
    IN  [year |-> date.year, month |-> date.month, day |-> date.day,
         hour |-> tod \div SECONDS_PER_HOUR,
         minute |-> (tod % SECONDS_PER_HOUR) \div 60,
         second |-> tod % 60,
         tz |-> tz]

LocalSeconds(dt) ==
    DaysFromCivil(dt.year, dt.month, dt.day) * SECONDS_PER_DAY
        + dt.hour * SECONDS_PER_HOUR + dt.minute * 60 + dt.second

\* the POSIX timestamp of an aware datetime
Timestamp(dt) == LocalSeconds(dt) - dt.tz.offset

\* pendulum.from_timestamp(ts, tz=tz)
from_timestamp(ts, tz) == FromLocalSeconds(ts + tz.offset, tz)

-----------------------------------------------------------------------------
(* pendulum.duration and the operations the filter applies to it.          *)

\* pendulum.duration(years=..., ..., seconds=...): years and months are kept
\* as given, the other components are summed and split again.
duration(years, months, weeks, days, hours, minutes, seconds) ==
    LET total == weeks * 7 * SECONDS_PER_DAY + days * SECONDS_PER_DAY
                 + hours * SECONDS_PER_HOUR + minutes * 60 + seconds
        m     == Sign(total)
        secs  == (Abs(total) % SECONDS_PER_DAY) * m
        dd    == (Abs(total) \div SECONDS_PER_DAY) * m
    IN  [years |-> years, months |-> months,
         weeks |-> (Abs(dd) \div 7) * m,
         remaining_days |-> (Abs(dd) % 7) * m,
         hours |-> (Abs(secs) \div SECONDS_PER_HOUR) * m,
         minutes |-> ((Abs(secs) % SECONDS_PER_HOUR) \div 60) * m,
         remaining_seconds |-> (Abs(secs) % 60) * m]

\* Duration.in_words(): one part per period whose count is not zero
in_words(td) ==
    LET periods == << <<"year", td.years>>, <<"month", td.months>>,
                      <<"week", td.weeks>>, <<"day", td.remaining_days>>,
                      <<"hour", td.hours>>, <<"minute", td.minutes>>,
                      <<"second", td.remaining_seconds>> >>
    IN  SelectSeq(periods, LAMBDA p : Abs(p[2]) > 0)

\* a fixed number of seconds per year and month instead of calendar addition
AddFixedSeconds(dt, td) ==
    from_timestamp(Timestamp(dt)
        + (td.years * 365 + td.months * 30 + td.weeks * 7 + td.remaining_days)
            * SECONDS_PER_DAY
        + td.hours * SECONDS_PER_HOUR + td.minutes * 60
        + td.remaining_seconds, dt.tz)

\* file_added + self.timedelta: DateTime.add(years, months, weeks, days, ...),
\* years and months are added on the calendar with the day of month clamped
\* to the length of the target month, the rest is added as elapsed time.
AddDuration(dt, td) ==
    LET mm    == dt.month + td.months
        year  == dt.year + td.years + ((mm - 1) \div 12)
        month == ((mm - 1) % 12) + 1
        day   == Min(dt.day, DaysInMonth(year, month))
        rest  == (td.weeks * 7 + td.remaining_days) * SECONDS_PER_DAY
                 + td.hours * SECONDS_PER_HOUR + td.minutes * 60
                 + td.remaining_seconds
        l     == DaysFromCivil(year, month, day) * SECONDS_PER_DAY
                 + dt.hour * SECONDS_PER_HOUR + dt.minute * 60
                 + dt.second + rest
    IN  FromLocalSeconds(l, dt.tz)

\* a comparison that counts the present instant as past
IsPastInclusive(dt, t) == Timestamp(dt) <= t

\* DateTime.is_past() evaluated when the clock reads t: strictly before now
is_past(dt, t) == Timestamp(dt) < t

-----------------------------------------------------------------------------
(* Strings: the mode text is a sequence of characters.                     *)

UPPERCASE == <<"A", "B", "C", "D", "E", "F", "G", "H", "I", "J", "K", "L", "M",
               "N", "O", "P", "Q", "R", "S", "T", "U", "V", "W", "X", "Y", "Z">>

LOWERCASE == <<"a", "b", "c", "d", "e", "f", "g", "h", "i", "j", "k", "l", "m",
               "n", "o", "p", "q", "r", "s", "t", "u", "v", "w", "x", "y", "z">>

Whitespace == {" ", "\t", "\n", "\r"}

lower_char(c) ==
    IF \E i \in DOMAIN UPPERCASE : UPPERCASE[i] = c
    THEN LOWERCASE[CHOOSE i \in DOMAIN UPPERCASE : UPPERCASE[i] = c]
    ELSE c

\* str.lower()
lower(s) == [i \in DOMAIN s |-> lower_char(s[i])]

RECURSIVE lstrip(_)
lstrip(s) == IF s # <<>> /\ Head(s) \in Whitespace THEN lstrip(Tail(s)) ELSE s

RECURSIVE rstrip(_)
rstrip(s) ==
    IF s # <<>> /\ s[Len(s)] \in Whitespace THEN rstrip(SubSeq(s, 1, Len(s) - 1)) ELSE s

\* str.strip()
strip(s) == rstrip(lstrip(s))

OLDER == <<"o", "l", "d", "e", "r">>

NEWER == <<"n", "e", "w", "e", "r">>

-----------------------------------------------------------------------------
(* The values the model draws its inputs from.                             *)

Filters == {"f1", "f2"}

Calls == {"c1", "c2"}

Paths == {"p1", "p2"}

UTC == [name |-> "UTC", offset |-> 0]

EET == [name |-> "Etc/GMT-2", offset |-> 2 * SECONDS_PER_HOUR]

Timezones == {UTC, EET}

\* the timestamp of a UTC wall clock reading
TS(y, m, d, hh, mi, ss) ==
    DaysFromCivil(y, m, d) * SECONDS_PER_DAY + hh * SECONDS_PER_HOUR + mi * 60 + ss

LeapDayNoon == TS(2024, 2, 29, 12, 0, 0)

EndOfMarch == TS(2024, 3, 31, 23, 0, 0)

\* last-modified times a path can carry
Instants == {LeapDayNoon, EndOfMarch}

\* the number of times the model lets the clock advance
MaxTicks == 4

\* the readings the wall clock can go through, in order
Readings == <<LeapDayNoon + 2 * SECONDS_PER_HOUR,
              LeapDayNoon + 5 * SECONDS_PER_HOUR,
              LeapDayNoon + 10 * SECONDS_PER_DAY,
              TS(2025, 2, 28, 12, 0, 0),
              TS(2025, 3, 1, 12, 0, 0),
              TS(2025, 5, 1, 1, 0, 0),
              TS(2026, 1, 1, 0, 0, 0)>>

Nows == {Readings[i] : i \in 1..Min(MaxTicks + 1, Len(Readings))}

Args(years, months, weeks, days, hours, minutes, seconds) ==
    [years |-> years, months |-> months, weeks |-> weeks, days |-> days,
     hours |-> hours, minutes |-> minutes, seconds |-> seconds]

\* the keyword arguments years..seconds of a configuration
DurationArgs ==
    {Args(0, 0, 0, 0, 0, 0, 0),
     Args(0, 0, 0, 10, 0, 0, 0),
     Args(0, 0, 0, 0, 5, 0, 0),
     Args(1, 0, 0, 0, 0, 0, 0),
     Args(0, 1, 0, 0, 0, 0, 0),
     Args(0, 0, 0, 0, 1, -60, 0)}

\* the mode argument of a configuration
ModeTexts ==
    {OLDER, NEWER,
     <<" ", "O", "l", "d", "e", "r", "\n">>,
     <<"N", "E", "W", "E", "R", " ">>,
     <<>>,
     <<"o", "l", "d">>,
     <<"o", "l", " ", "d", "e", "r">>,
     <<"n", "e", "w", "e", "r", " ", "x">>}

\* the timezone argument: a timezone, or left out
Omitted == [name |-> "<omitted>", offset |-> 0]

TimezoneArgs == Timezones \cup {Omitted}

-----------------------------------------------------------------------------
(* DateAdded.__init__                                                      *)

NoFilter == [constructed |-> FALSE]

\* pendulum.tz.local_timezone()
local_timezone == sysTz

\* a default looked up again at every call of __init__
DefaultResolvedAtCall == local_timezone

\* the default of the timezone parameter: the def statement evaluated
\* pendulum.tz.local_timezone() once, when the class body was executed
DefaultTimezone == defaultTz

\* a validation that compares the text without normalizing it
NormalizeModeRaw(mode) == mode

\* mode.strip().lower()
NormalizeMode(mode) == lower(strip(mode))

\* the instance __init__ leaves behind when it returns normally
NewFilter(a, mode, tzarg) ==
    LET m == NormalizeMode(mode)
    IN  [constructed |-> TRUE,
         mode |-> m,
         is_older |-> (m = OLDER),
         timezone |-> IF tzarg = Omitted THEN DefaultTimezone ELSE tzarg,
         timedelta |-> duration(a.years, a.months, a.weeks, a.days,
                                a.hours, a.minutes, a.seconds)]

\* whether line 124 raises
RaisesValueError(mode) == NormalizeMode(mode) \notin {OLDER, NEWER}

NotCalled == [status |-> "new"]

CtorRecord(a, mode, tzarg) ==
    [status |-> IF RaisesValueError(mode) THEN "ValueError" ELSE "ok",
     mode |-> mode, args |-> a, tzarg |-> tzarg, local |-> local_timezone]

\* DateAdded(years=..., ..., mode=mode, timezone=tzarg), or timezone left out
Construct(f, a, mode, tzarg) ==
    /\ ctor[f] = NotCalled
    /\ ctor' = [ctor EXCEPT ![f] = CtorRecord(a, mode, tzarg)]
    /\ filter' = [filter EXCEPT ![f] =
                     IF RaisesValueError(mode) THEN NoFilter
                     ELSE NewFilter(a, mode, tzarg)]
    /\ UNCHANGED <<sysTz, defaultTz, platform, fs, now, call>>

\* the administrator (or TZ) changes the system's local timezone
ChangeSystemTimezone ==
    /\ \E tz \in Timezones \ {sysTz} : sysTz' = tz
    /\ UNCHANGED <<defaultTz, filter, ctor, platform, fs, now, call>>

-----------------------------------------------------------------------------
(* The filesystem, the metadata store and the clock.                       *)

\* the kMDItemDateAdded attribute the metadata store holds for a path
kMDItemDateAdded(p) ==
    IF p = "p1" THEN TS(2024, 1, 15, 8, 0, 0) ELSE TS(2023, 6, 15, 9, 30, 0)

Removed == [exists |-> FALSE, mtime |-> 0]

\* another process writes to the path, or sets its times
Modify(p, m) ==
    /\ fs[p].exists
    /\ fs[p].mtime # m
    /\ fs' = [fs EXCEPT ![p].mtime = m]
    /\ UNCHANGED <<sysTz, defaultTz, filter, ctor, platform, now, call>>

\* another process removes the path
Remove(p) ==
    /\ fs[p].exists
    /\ fs' = [fs EXCEPT ![p] = Removed]
    /\ UNCHANGED <<sysTz, defaultTz, filter, ctor, platform, now, call>>

\* time passes
Tick ==
    /\ \E t \in Nows : t > now /\ now' = t
    /\ UNCHANGED <<sysTz, defaultTz, filter, ctor, platform, fs, call>>

\* how subprocess.check_output(["mdls", ...]) can end for path p
QueryOutcomes(p) ==
    IF platform = "darwin"
    THEN (IF fs[p].exists THEN {"ok"} ELSE {}) \cup {"CalledProcessError", "AttributeError"}
    ELSE {"FileNotFoundError", "AttributeError"}

-----------------------------------------------------------------------------
(* DateAdded.pipeline and DateAdded._date_added, one frame per call.       *)

NoInstant == [year |-> 0, month |-> 0, day |-> 0, hour |-> 0, minute |-> 0,
              second |-> 0, tz |-> UTC]

Unset == [src |-> "unset", value |-> 0]

Pending == [kind |-> "pending", payload |-> <<>>, exc |-> "", origin |-> ""]

\* return None
None == [kind |-> "None", payload |-> <<>>, exc |-> "", origin |-> ""]

\* an exception leaving pipeline()
Raise(exc, origin) == [kind |-> "raise", payload |-> <<>>, exc |-> exc, origin |-> origin]

\* a payload under the key of the filter this one was copied from
MatchedLastModified(dt) ==
    [kind |-> "match", payload |-> [lastmodified |-> dt], exc |-> "", origin |-> ""]

\* return {"dateadded": file_added}
Matched(dt) ==
    [kind |-> "match", payload |-> [dateadded |-> dt], exc |-> "", origin |-> ""]

IdleFrame ==
    [pc |-> "idle", self |-> "", path |-> "", stat |-> Unset, time |-> Unset,
     file_added |-> NoInstant, query |-> "", clock |-> 0, result |-> Pending]

\* the value handed to from_timestamp, were the native value returned when there is one
ResolvedFromTime(time, st_mtime) == IF time.src = "mdls" THEN time.value ELSE st_mtime

\* float(path.stat().st_mtime) of line 157: the variable time is not read
ResolvedTimestamp(time, st_mtime) == st_mtime

\* a match decided without the special case of the empty duration
MatchAlwaysCompared(self, dt, t) == self.is_older = is_past(AddDuration(dt, self.timedelta), t)

\* lines 141-145: the value of match
Match(self, dt, t) ==
    IF in_words(self.timedelta) # <<>>
    THEN self.is_older = is_past(AddDuration(dt, self.timedelta), t)
    ELSE TRUE

\* lines 146-148
ReturnValue(match, dt) == IF match THEN Matched(dt) ELSE None

\* a file_added kept where every call on the instance reads and writes it
file_added_shared(c) ==
    IF \E o \in Calls \ {c} : call[o].pc = "l141" /\ call[o].self = call[c].self
    THEN call[CHOOSE o \in Calls \ {c} : call[o].pc = "l141"
                                         /\ call[o].self = call[c].self].file_added
    ELSE call[c].file_added

\* the local variable file_added of call c
file_added(c) == call[c].file_added

\* the paths worker c is handed: concurrent calls are on different paths
Assigned(c) == IF c = "c1" THEN {"p1"} ELSE Paths \ {"p1"}

\* the rule engine calls f.pipeline(args) with args.path = p
Start(c, f, p) ==
    /\ call[c].pc = "idle"
    /\ p \in Assigned(c)
    /\ filter[f].constructed
    /\ call' = [call EXCEPT ![c] = [IdleFrame EXCEPT !.pc = "l151", !.self = f, !.path = p]]
    /\ UNCHANGED <<sysTz, defaultTz, filter, ctor, platform, fs, now>>

\* line 151: stat = path.stat()
Stat(c) ==
    /\ call[c].pc = "l151"
    /\ call' = [call EXCEPT ![c] =
                   IF fs[call[c].path].exists
                   THEN [@ EXCEPT !.pc = "l153",
                                  !.stat = [src |-> "st_mtime", value |-> fs[call[c].path].mtime]]
                   ELSE [@ EXCEPT !.pc = "done",
                                  !.result = Raise("FileNotFoundError", "path.stat")]]
    /\ UNCHANGED <<sysTz, defaultTz, filter, ctor, platform, fs, now>>

\* lines 152-156: the mdls query; only AttributeError is handled
Query(c) ==
    /\ call[c].pc = "l153"
    /\ \E q \in QueryOutcomes(call[c].path) :
         call' = [call EXCEPT ![c] =
                     IF q = "ok"
                     THEN [@ EXCEPT !.pc = "l157", !.query = q,
                                    !.time = [src |-> "mdls",
                                              value |-> kMDItemDateAdded(call[c].path)]]
                     ELSE IF q = "AttributeError"
                     THEN [@ EXCEPT !.pc = "l157", !.query = q, !.time = call[c].stat]
                     ELSE [@ EXCEPT !.pc = "done", !.query = q, !.stat = Unset,
                                    !.result = Raise(q, "subprocess.check_output")]]
    /\ UNCHANGED <<sysTz, defaultTz, filter, ctor, platform, fs, now>>

\* line 157: a second path.stat(), and the return of _date_added
Resolve(c) ==
    /\ call[c].pc = "l157"
    /\ call' = [call EXCEPT ![c] =
                   IF fs[call[c].path].exists
                   THEN [@ EXCEPT !.pc = "l141", !.stat = Unset, !.time = Unset,
                                  !.file_added =
                                      from_timestamp(
                                          ResolvedTimestamp(call[c].time, fs[call[c].path].mtime),
                                          filter[call[c].self].timezone)]
                   ELSE [@ EXCEPT !.pc = "done", !.stat = Unset, !.time = Unset,
                                  !.result = Raise("FileNotFoundError", "path.stat")]]
    /\ UNCHANGED <<sysTz, defaultTz, filter, ctor, platform, fs, now>>

\* lines 139-148: is_past() reads the clock, pipeline returns
Decide(c) ==
    /\ call[c].pc = "l141"
    /\ call' = [call EXCEPT ![c] =
                   [@ EXCEPT !.pc = "done", !.clock = now,
                             !.result = ReturnValue(
                                 Match(filter[call[c].self], file_added(c), now),
                                 file_added(c))]]
    /\ UNCHANGED <<sysTz, defaultTz, filter, ctor, platform, fs, now>>

\* the caller has taken the outcome; the frame is gone
Return(c) ==
    /\ call[c].pc = "done"
    /\ call' = [call EXCEPT ![c] = IdleFrame]
    /\ UNCHANGED <<sysTz, defaultTz, filter, ctor, platform, fs, now>>

-----------------------------------------------------------------------------
(* Specifications.                                                         *)

\* the module has been imported, no filter constructed yet
InitCtor ==
    /\ sysTz \in Timezones
    /\ defaultTz = sysTz
    /\ filter = [f \in Filters |-> NoFilter]
    /\ ctor = [f \in Filters |-> NotCalled]
    /\ platform = "darwin"
    /\ fs = [p \in Paths |-> [exists |-> TRUE, mtime |-> LeapDayNoon]]
    /\ now = Readings[1]
    /\ call = [c \in Calls |-> IdleFrame]

NextCtor ==
    \/ ChangeSystemTimezone
    \/ \E f \in Filters, a \in DurationArgs, mode \in ModeTexts, tzarg \in TimezoneArgs :
         Construct(f, a, mode, tzarg)

SpecCtor == InitCtor /\ [][NextCtor]_vars

\* one filter has been constructed from a valid configuration
Init ==
    /\ sysTz \in Timezones
    /\ defaultTz = sysTz
    /\ \E a \in DurationArgs, mode \in {OLDER, NEWER} :
         /\ filter = [f \in Filters |-> IF f = "f1" THEN NewFilter(a, mode, Omitted) ELSE NoFilter]
         /\ ctor = [f \in Filters |-> IF f = "f1" THEN CtorRecord(a, mode, Omitted) ELSE NotCalled]
    /\ platform \in {"darwin", "other"}
    /\ fs = [p \in Paths |-> [exists |-> TRUE,
                              mtime |-> IF p = "p1" THEN LeapDayNoon ELSE EndOfMarch]]
    /\ now = Readings[1]
    /\ call = [c \in Calls |-> IdleFrame]

Next ==
    \/ \E c \in Calls, f \in Filters, p \in Paths : Start(c, f, p)
    \/ \E c \in Calls : Stat(c)
    \/ \E c \in Calls : Query(c)
    \/ \E c \in Calls : Resolve(c)
    \/ \E c \in Calls : Decide(c)
    \/ \E c \in Calls : Return(c)
    \/ \E p \in Paths, m \in Instants : Modify(p, m)
    \/ \E p \in Paths : Remove(p)
    \/ Tick

Spec == Init /\ [][Next]_vars

-----------------------------------------------------------------------------
(* Properties of construction, checked under SpecCtor.                     *)

SameLetter(c, w) ==
    c = w \/ \E i \in DOMAIN LOWERCASE : LOWERCASE[i] = w /\ UPPERCASE[i] = c

\* s is word in any letter case, with any whitespace before and after it
Spells(s, word) ==
    \E a \in 0..Len(s) :
        /\ a + Len(word) <= Len(s)
        /\ \A i \in 1..a : s[i] \in Whitespace
        /\ \A k \in 1..Len(word) : SameLetter(s[a + k], word[k])
        /\ \A i \in (a + Len(word) + 1)..Len(s) : s[i] \in Whitespace

\* C1: construction succeeds exactly when the mode text, stripped of surrounding
\* whitespace and lower-cased, is "older" or "newer"; the instance then holds
\* is_older = TRUE for "older" and is_older = FALSE for "newer"; for every other
\* mode text __init__ raises (ValueError) and no filter is produced.
C1_ModeDecidesConstruction ==
    \A f \in Filters :
        ctor[f] # NotCalled =>
            /\ (ctor[f].status = "ok") <=>
                   (Spells(ctor[f].mode, OLDER) \/ Spells(ctor[f].mode, NEWER))
            /\ Spells(ctor[f].mode, OLDER) =>
                   /\ filter[f].constructed
                   /\ filter[f].is_older
                   /\ filter[f].mode = OLDER
            /\ Spells(ctor[f].mode, NEWER) =>
                   /\ filter[f].constructed
                   /\ ~filter[f].is_older
                   /\ filter[f].mode = NEWER
            /\ ctor[f].status # "ok" =>
                   /\ ctor[f].status = "ValueError"
                   /\ filter[f] = NoFilter

\* a mode text with capitals and surrounding whitespace was accepted as OLDER,
\* and a text that is neither word was rejected
C1_Witness ==
    \E f, g \in Filters :
        /\ ctor[f] # NotCalled
        /\ ctor[f].mode = <<" ", "O", "l", "d", "e", "r", "\n">>
        /\ filter[f].constructed
        /\ filter[f].is_older
        /\ ctor[g] # NotCalled
        /\ ctor[g].mode = <<"o", "l", " ", "d", "e", "r">>
        /\ ctor[g].status = "ValueError"

DefaultedOk(f) == ctor[f] # NotCalled /\ ctor[f].status = "ok" /\ ctor[f].tzarg = Omitted

\* C10 as stated: a filter constructed without a timezone holds the system's local
\* timezone as it is at the moment of its construction, so two such filters
\* constructed around a change of the system timezone hold different timezones.
C10_DefaultResolvedAtConstruction ==
    /\ \A f \in Filters : DefaultedOk(f) => filter[f].timezone = ctor[f].local
    /\ \A f, g \in Filters :
           (DefaultedOk(f) /\ DefaultedOk(g) /\ ctor[f].local # ctor[g].local)
               => filter[f].timezone # filter[g].timezone

\* C10 amended: every filter constructed without a timezone holds the one value
\* the default was given when the class was defined, so any two such filters
\* hold the same timezone, whatever the system timezone was at their construction.
C10_DefaultSharedByAllFilters ==
    \A f, g \in Filters :
        (DefaultedOk(f) /\ DefaultedOk(g)) =>
            /\ filter[f].timezone = defaultTz
            /\ filter[f].timezone = filter[g].timezone

\* two filters were constructed without a timezone, the system timezone differed
\* between the two constructions, and both hold the same timezone
C10_Witness ==
    \E f, g \in Filters :
        /\ DefaultedOk(f)
        /\ DefaultedOk(g)
        /\ ctor[f].local # ctor[g].local
        /\ filter[f].timezone = filter[g].timezone

-----------------------------------------------------------------------------
(* Properties of evaluation, checked under Spec.                           *)

Done(c) == call[c].pc = "done"

\* pipeline() ended by a return statement (lines 146-148), not by an exception
Returned(c) == Done(c) /\ call[c].result.kind \in {"match", "None"}

Config(c) == ctor[call[c].self].args

Self(c) == filter[call[c].self]

AllZero(a) ==
    /\ a.years = 0 /\ a.months = 0 /\ a.weeks = 0 /\ a.days = 0
    /\ a.hours = 0 /\ a.minutes = 0 /\ a.seconds = 0

\* the components do not cancel: years or months is not zero, or the other
\* five do not add up to a span of zero seconds
NonEmptySpan(a) ==
    \/ a.years # 0
    \/ a.months # 0
    \/ ((a.weeks * 7 + a.days) * 24 + a.hours) * 3600 + a.minutes * 60 + a.seconds # 0

\* instant + duration, as a timestamp
Boundary(c) == Timestamp(AddDuration(call[c].file_added, Self(c).timedelta))

DirectionDecides(c) ==
    (call[c].result.kind = "match") <=>
        IF Self(c).is_older THEN Boundary(c) < call[c].clock
                            ELSE Boundary(c) >= call[c].clock

C3_NullDurationAlwaysMatches ==
    \A c \in Calls : (Returned(c) /\ AllZero(Config(c))) => call[c].result.kind = "match"

\* an all-zero NEWER filter matched a path whose instant lies before now
C3_Witness ==
    \E c \in Calls :
        /\ Returned(c)
        /\ AllZero(Config(c))
        /\ ~Self(c).is_older
        /\ Timestamp(call[c].file_added) < call[c].clock
        /\ call[c].result.kind = "match"

C5_QueryFailureNeverPropagates ==
    \A c \in Calls :
        (Done(c) /\ fs[call[c].path].exists) => call[c].result.kind \in {"match", "None"}

\* C6: the only failure pipeline() can end in is the path-not-found error
\* raised by path.stat().
C6_OnlyPathNotFound ==
    \A c \in Calls :
        (Done(c) /\ call[c].result.kind = "raise") =>
            call[c].result = Raise("FileNotFoundError", "path.stat")

OnlyYearsAndMonths(a) ==
    a.weeks = 0 /\ a.days = 0 /\ a.hours = 0 /\ a.minutes = 0 /\ a.seconds = 0

\* C7: instant + duration is a calendar addition: N years and M months move the
\* instant to the month that lies 12 N + M months later, keep its time of day and
\* its day of month, the day clamped to the last day of the target month; from
\* 2024-02-29 one year leads to 2025-02-28.
C7_CalendarAwareBoundary ==
    \A c \in Calls :
        (call[c].file_added # NoInstant /\ OnlyYearsAndMonths(Config(c))) =>
            LET a  == Config(c)
                dt == call[c].file_added
                b  == AddDuration(dt, Self(c).timedelta)
                n  == dt.year * 12 + (dt.month - 1) + a.years * 12 + a.months
                ty == n \div 12
                tm == (n % 12) + 1
            IN  /\ b.year = ty
                /\ b.month = tm
                /\ b.day = Min(dt.day, DaysInMonth(ty, tm))
                /\ b.hour = dt.hour /\ b.minute = dt.minute /\ b.second = dt.second
                /\ b.tz = dt.tz
                /\ (dt.year = 2024 /\ dt.month = 2 /\ dt.day = 29
                        /\ a.years = 1 /\ a.months = 0)
                       => (b.year = 2025 /\ b.month = 2 /\ b.day = 28)

\* a filter of one year decided on an instant of 2024-02-29 exactly when the
\* clock read the boundary, which lies on 2025-02-28: the day was clamped
C7_Witness ==
    \E c \in Calls :
        /\ Returned(c)
        /\ Config(c) = Args(1, 0, 0, 0, 0, 0, 0)
        /\ call[c].file_added.year = 2024
        /\ call[c].file_added.month = 2
        /\ call[c].file_added.day = 29
        /\ AddDuration(call[c].file_added, Self(c).timedelta).day = 28
        /\ Boundary(c) = call[c].clock

\* C8: no step of a call changes the instance's attributes, and the outcome of
\* each call is the outcome of the pipeline run on that call's own instant, the
\* instance's configuration and the clock, whatever the other calls are doing.
C8_CallsAreIndependent ==
    [][/\ filter' = filter
       /\ \A c \in Calls :
              (call[c].pc = "l141" /\ call'[c].pc = "done") =>
                  call'[c].result =
                      IF in_words(Self(c).timedelta) = <<>>
                         \/ (Self(c).is_older
                                = (Timestamp(AddDuration(call[c].file_added,
                                                         Self(c).timedelta)) < now))
                      THEN Matched(call[c].file_added)
                      ELSE None]_vars

\* one call has returned a match while another call on the same instance holds
\* a different instant and has not decided yet
C8_Witness ==
    \E c, d \in Calls :
        /\ Done(c)
        /\ call[c].result.kind = "match"
        /\ call[d].pc = "l141"
        /\ call[d].self = call[c].self
        /\ call[d].file_added # call[c].file_added

====
